---------------------------- MODULE Spec2Model ----------------------------
(***************************************************************************)
(* A model of the marketguard flip pipeline:                               *)
(*   - the resale cache of mercari_scraper.py (get_mercari_resale_data,    *)
(*     load_cache, save_cache),                                            *)
(*   - the flip economics of resale_estimator.py (analyze_item),           *)
(*   - the batch pipeline ebay_scraper.search_ebay_api ->                  *)
(*     resale_estimator.run_analysis,                                      *)
(*   - the quality gates of the two listing sources and to_search_query   *)
(*     as functions of a title,                                            *)
(*   - two pipelines that share the cache file.                            *)
(* Money is counted in cents, ROI in tenths of a percent, time in hours.   *)
(***************************************************************************)
EXTENDS Integers, Sequences, FiniteSets, TLC

VARIABLES
    file,      \* content of mercari_cache.json
    now,       \* datetime.utcnow(), in hours
    cloud,     \* MG_CLOUD == "1"
    call,      \* the get_mercari_resale_data call in progress, if any
    last,      \* observation of the latest completed call
    prev,      \* observation of the call completed before it
    ncalls,    \* calls started so far
    nticks,    \* clock advances so far
    thr,       \* resale_estimator's thresholds, read from the environment
    fres,      \* the latest result of the flip evaluation, with its inputs
    scan,      \* the run of ebay_scraper.py: its input and what it did
    results,   \* content of results.json
    run,       \* the run of run_analysis
    flipReport, \* content of flip_report.json
    gate,      \* the latest title handed to the gates and the normalizer
    procs      \* two pipelines that share mercari_cache.json

cacheVars == <<file, now, cloud, call, last, prev, ncalls, nticks>>
flipVars == <<thr, fres>>
batchVars == <<scan, results, run, flipReport>>
gateVars == <<gate>>
raceVars == <<procs>>
vars == <<cacheVars, flipVars, batchVars, gateVars, raceVars>>

---------------------------------------------------------------------------
(* Bounds of the model *)

MaxCalls == 2
MaxTicks == 1

---------------------------------------------------------------------------
(* Text helpers: str.lower(), str.strip() *)

UpperChars == "ABCDEFGHIJKLMNOPQRSTUVWXYZ"
LowerChars == "abcdefghijklmnopqrstuvwxyz"

CharAt(s, i) == SubSeq(s, i, i)

LowerChar(c) ==
    IF \E i \in 1..Len(UpperChars) : CharAt(UpperChars, i) = c
    THEN CharAt(LowerChars, CHOOSE i \in 1..Len(UpperChars) : CharAt(UpperChars, i) = c)
    ELSE c

RECURSIVE Lower(_)
Lower(s) ==
    IF Len(s) = 0 THEN ""
    ELSE LowerChar(CharAt(s, 1)) \o Lower(SubSeq(s, 2, Len(s)))

IsSpace(c) == c \in {" ", "\t", "\n", "\r"}

RECURSIVE LStrip(_)
LStrip(s) ==
    IF Len(s) > 0 /\ IsSpace(CharAt(s, 1)) THEN LStrip(SubSeq(s, 2, Len(s))) ELSE s

RECURSIVE RStrip(_)
RStrip(s) ==
    IF Len(s) > 0 /\ IsSpace(CharAt(s, Len(s))) THEN RStrip(SubSeq(s, 1, Len(s) - 1)) ELSE s

Strip(s) == RStrip(LStrip(s))

---------------------------------------------------------------------------
(* Text helpers: substring tests, str.split(), " ".join() *)

IsDigit(c) == c \in {"0", "1", "2", "3", "4", "5", "6", "7", "8", "9"}

IsLowerAlpha(c) ==
    c \in {"a", "b", "c", "d", "e", "f", "g", "h", "i", "j", "k", "l", "m",
           "n", "o", "p", "q", "r", "s", "t", "u", "v", "w", "x", "y", "z"}

\* \w
IsWordChar(c) == IsDigit(c) \/ IsLowerAlpha(LowerChar(c)) \/ c = "_"

\* sub in s
Contains(s, sub) ==
    \E i \in 1..(Len(s) - Len(sub) + 1) : SubSeq(s, i, i + Len(sub) - 1) = sub

\* any(x in s for x in terms)
AnyIn(terms, s) == \E j \in 1..Len(terms) : Contains(s, terms[j])

\* s.split(): the maximal runs of non-space characters
RECURSIVE SplitFrom(_, _, _)
SplitFrom(s, i, word) ==
    IF i > Len(s) THEN (IF word = "" THEN <<>> ELSE <<word>>)
    ELSE IF IsSpace(CharAt(s, i))
    THEN (IF word = "" THEN <<>> ELSE <<word>>) \o SplitFrom(s, i + 1, "")
    ELSE SplitFrom(s, i + 1, word \o CharAt(s, i))

Split(s) == SplitFrom(s, 1, "")

\* " ".join(words)
RECURSIVE Join(_)
Join(words) ==
    IF Len(words) = 0 THEN ""
    ELSE IF Len(words) = 1 THEN words[1]
    ELSE words[1] \o " " \o Join(Tail(words))

\* words[:n]
Take(words, n) == SubSeq(words, 1, IF Len(words) < n THEN Len(words) ELSE n)

---------------------------------------------------------------------------
(* Regular expressions as the re module matches them.  A pattern is a      *)
(* sequence of alternatives tried in order, an alternative a sequence of   *)
(* atoms; an atom is a character class with a greedy repetition lo..hi, or *)
(* the word boundary \b.                                                   *)

Unbounded == 0 - 1

Atom(k, ch, lo, hi) == [k |-> k, ch |-> ch, lo |-> lo, hi |-> hi]

Lit(str) == [i \in 1..Len(str) |-> Atom("lit", CharAt(str, i), 1, 1)]
OptLit(c) == <<Atom("lit", c, 0, 1)>>
Digits(lo, hi) == <<Atom("digit", "", lo, hi)>>
Letters(lo, hi) == <<Atom("lower", "", lo, hi)>>
WordChars(lo, hi) == <<Atom("word", "", lo, hi)>>
Spaces(lo, hi) == <<Atom("space", "", lo, hi)>>
AnyChars == <<Atom("any", "", 0, Unbounded)>>
OneOf(chars) == <<Atom("set", chars, 1, 1)>>
WB == <<Atom("wb", "", 0, 0)>>

InClass(a, c) ==
    CASE a.k = "lit" -> c = a.ch
      [] a.k = "digit" -> IsDigit(c)
      [] a.k = "lower" -> IsLowerAlpha(c)
      [] a.k = "word" -> IsWordChar(c)
      [] a.k = "space" -> IsSpace(c)
      [] a.k = "any" -> c # "\n"
      [] a.k = "set" -> Contains(a.ch, c)
      [] OTHER -> FALSE

WordAt(s, i) == i >= 1 /\ i <= Len(s) /\ IsWordChar(CharAt(s, i))

\* \b between the characters i-1 and i
WordBoundary(s, i) == WordAt(s, i - 1) # WordAt(s, i)

\* how many characters from i on an atom can take
RECURSIVE MaxRun(_, _, _, _)
MaxRun(a, s, i, n) ==
    IF (a.hi = Unbounded \/ n < a.hi) /\ i + n <= Len(s) /\ InClass(a, CharAt(s, i + n))
    THEN MaxRun(a, s, i, n + 1)
    ELSE n

\* the end (index after the last character) of the match of the atoms k..
\* of alt starting at i, 0 if there is none; repetitions take as much as
\* they can and give back one character at a time
RECURSIVE MatchFrom(_, _, _, _)
RECURSIVE TryCounts(_, _, _, _, _)
RECURSIVE OrFewer(_, _, _, _, _, _)
MatchFrom(alt, k, s, i) ==
    IF k > Len(alt) THEN i
    ELSE IF alt[k].k = "wb"
    THEN (IF WordBoundary(s, i) THEN MatchFrom(alt, k + 1, s, i) ELSE 0)
    ELSE TryCounts(alt, k, s, i, MaxRun(alt[k], s, i, 0))

\* the atom k takes n characters, or fewer if the rest does not match then
TryCounts(alt, k, s, i, n) ==
    IF n < alt[k].lo THEN 0
    ELSE OrFewer(MatchFrom(alt, k + 1, s, i + n), alt, k, s, i, n)

OrFewer(r, alt, k, s, i, n) == IF r # 0 THEN r ELSE TryCounts(alt, k, s, i, n - 1)

RECURSIVE MatchAlt(_, _, _, _)
RECURSIVE OrNextAlt(_, _, _, _, _)
MatchAlt(pat, j, s, i) ==
    IF j > Len(pat) THEN 0
    ELSE OrNextAlt(MatchFrom(pat[j], 1, s, i), pat, j, s, i)

OrNextAlt(r, pat, j, s, i) == IF r # 0 THEN r ELSE MatchAlt(pat, j + 1, s, i)

MatchAt(pat, s, i) == MatchAlt(pat, 1, s, i)

\* re.search(pat, s) is not None
Search(pat, s) == \E i \in 1..(Len(s) + 1) : MatchAt(pat, s, i) # 0

\* re.sub(pat, rep, s) for a pattern that matches no empty string
RECURSIVE SubFrom(_, _, _, _)
RECURSIVE SubMatch(_, _, _, _, _)
SubFrom(pat, rep, s, i) ==
    IF i > Len(s) THEN "" ELSE SubMatch(MatchAt(pat, s, i), pat, rep, s, i)

\* e is the end of the match at i, if any
SubMatch(e, pat, rep, s, i) ==
    IF e > i THEN rep \o SubFrom(pat, rep, s, e)
    ELSE CharAt(s, i) \o SubFrom(pat, rep, s, i + 1)

Sub(pat, rep, s) == SubFrom(pat, rep, s, 1)

\* re.findall(pat, s) for a pattern without groups
RECURSIVE FindFrom(_, _, _)
RECURSIVE FindMatch(_, _, _, _)
FindFrom(pat, s, i) ==
    IF i > Len(s) THEN <<>> ELSE FindMatch(MatchAt(pat, s, i), pat, s, i)

\* e is the end of the match at i, if any
FindMatch(e, pat, s, i) ==
    IF e > i THEN <<SubSeq(s, i, e - 1)>> \o FindFrom(pat, s, e)
    ELSE FindFrom(pat, s, i + 1)

FindAll(pat, s) == FindFrom(pat, s, 1)

---------------------------------------------------------------------------
(* resale_estimator.py: to_search_query(title) *)

\* the items of the dict of lines 25-39, in order
brand_aliases ==
    << <<"de walt", "dewalt">>, <<"dewalt", "dewalt">>, <<"milwaukee", "milwaukee">>,
       <<"makita", "makita">>, <<"ryobi", "ryobi">>, <<"bosch", "bosch">>,
       <<"fluke", "fluke">>, <<"klein", "klein">>, <<"leatherman", "leatherman">>,
       <<"craftsman", "craftsman">>, <<"snap-on", "snap-on">>, <<"snap on", "snap-on">>,
       <<"snapon", "snap-on">> >>

\* the first alias found in t, "" for None
RECURSIVE BrandFrom(_, _)
BrandFrom(t, j) ==
    IF j > Len(brand_aliases) THEN ""
    ELSE IF Contains(t, brand_aliases[j][1]) THEN brand_aliases[j][2]
    ELSE BrandFrom(t, j + 1)

\* \bword\b
Word(w) == <<WB \o Lit(w) \o WB>>
\* \ba\s*b\b
Words2(a, b) == <<WB \o Lit(a) \o Spaces(0, Unbounded) \o Lit(b) \o WB>>

fluff_patterns ==
    << Words2("tool", "only"), Words2("bare", "tool"),
       Words2("no", "battery") \o Words2("no", "batteries"),
       Words2("no", "charger"), Word("tested"),
       <<WB \o Lit("work") \o OptLit("s") \o WB>>, Word("working"),
       Words2("free", "shipping"),
       <<WB \o Lit("with") \o WB \o AnyChars>>,
       <<WB \o Lit("w/") \o WB \o AnyChars>>,
       Word("case"), Word("bag"), Word("holder"), Word("adapter"), Word("attachment"),
       Word("tray"), Word("insert"), Word("bundle"), Word("kit"), Word("set"),
       <<WB \o Lit("part") \o OptLit("s") \o WB>>, Words2("for", "parts"),
       <<WB \o Lit("as") \o OptLit("-") \o Lit("is") \o WB>> >>

\* for p in fluff_patterns: t = re.sub(p, " ", t)
\* (the Len test makes t a value before the next pattern is applied to it)
RECURSIVE StripFluff(_, _)
StripFluff(t, j) ==
    IF j > Len(fluff_patterns) \/ Len(t) < 0 THEN t
    ELSE StripFluff(Sub(fluff_patterns[j], " ", t), j + 1)

\* \b\d+(\.\d+)?\s*ah\b
CAPACITY_RE ==
    << WB \o Digits(1, Unbounded) \o Lit(".") \o Digits(1, Unbounded)
          \o Spaces(0, Unbounded) \o Lit("ah") \o WB,
       WB \o Digits(1, Unbounded) \o Spaces(0, Unbounded) \o Lit("ah") \o WB >>

\* the token patterns without the hyphenated model number of line 68
patternsNoHyphen ==
    << <<WB \o Letters(2, Unbounded) \o Digits(2, Unbounded) \o WB>>,
       <<WB \o Digits(2, Unbounded) \o Letters(1, Unbounded) \o WB>>,
       <<WB \o Digits(3, Unbounded) \o WB>>,
       <<WB \o Lit("bl") \o Digits(4, 4) \o WordChars(0, Unbounded) \o WB>> >>

\* lines 67-73
patterns ==
    << <<WB \o Digits(3, 4) \o Lit("-") \o Digits(2, 2) \o WB>>,
       <<WB \o Letters(2, Unbounded) \o Digits(2, Unbounded) \o WB>>,
       <<WB \o Digits(2, Unbounded) \o Letters(1, Unbounded) \o WB>>,
       <<WB \o Digits(3, Unbounded) \o WB>>,
       <<WB \o Lit("bl") \o Digits(4, 4) \o WordChars(0, Unbounded) \o WB>> >>

\* for pat in patterns: tokens += re.findall(pat, t)
RECURSIVE Tokens(_, _)
Tokens(t, j) ==
    IF j > Len(patterns) THEN <<>>
    ELSE FindAll(patterns[j], t) \o Tokens(t, j + 1)

InSeq(x, xs) == \E j \in 1..Len(xs) : xs[j] = x

\* line 79: the first occurrence of each token, in order
RECURSIVE Dedupe(_, _)
Dedupe(tokens, seen) ==
    IF Len(tokens) = 0 THEN seen
    ELSE Dedupe(Tail(tokens),
                IF InSeq(Head(tokens), seen) THEN seen ELSE Append(seen, Head(tokens)))

\* lines 56-63, step by step
CleanStep(t, k) ==
    CASE k = 1 -> StripFluff(t, 1)
      [] k = 2 -> Sub(CAPACITY_RE, " ", t)
      [] k = 3 -> Sub(<<OneOf("/|,")>>, " ", t)
      [] k = 4 -> Sub(<<Spaces(1, Unbounded)>>, " ", t)
      [] OTHER -> Strip(t)

RECURSIVE CleanFrom(_, _)
CleanFrom(t, k) ==
    IF k > 5 \/ Len(t) < 0 THEN t ELSE CleanFrom(CleanStep(t, k), k + 1)

Cleaned(t) == CleanFrom(t, 1)

\* lines 81-89
Compose(brand, models, t) ==
    IF brand # "" /\ Len(models) > 0 THEN brand \o " " \o Join(Take(models, 3))
    ELSE IF brand # "" THEN brand
    ELSE IF Len(models) > 0 THEN Join(Take(models, 3))
    ELSE Join(Take(Split(t), 5))

\* lines 65-89, for the cleaned text t
ComposeFrom(brand, t) ==
    IF Len(t) < 0 THEN t ELSE Compose(brand, Dedupe(Tokens(t, 1), <<>>), t)

\* lines 22-63, for the lower-cased title
NormalizeLower(t0) ==
    IF Len(t0) < 0 THEN t0 ELSE ComposeFrom(BrandFrom(t0, 1), Cleaned(t0))

to_search_query(title) == NormalizeLower(Lower(title))

---------------------------------------------------------------------------
(* ebay_scraper.py: the quality gate and the API-level prefilter *)

BRAND_WHITELIST ==
    << "milwaukee", "dewalt", "makita", "ryobi", "bosch", "fluke",
       "klein", "leatherman", "craftsman", "snap-on", "snap on", "snapon" >>

\* \b(?:\d+(?:\.\d+)?\s*ah|[234]pack)\b
CapacityOrPack ==
    << WB \o Digits(1, Unbounded) \o Lit(".") \o Digits(1, Unbounded)
          \o Spaces(0, Unbounded) \o Lit("ah") \o WB,
       WB \o Digits(1, Unbounded) \o Spaces(0, Unbounded) \o Lit("ah") \o WB,
       WB \o OneOf("234") \o Lit("pack") \o WB >>

\* line 33: one alternative per head and brand
GENERIC_BATTERY_RE ==
    [ n \in 1..(Len(CapacityOrPack) * Len(BRAND_WHITELIST)) |->
        CapacityOrPack[((n - 1) \div Len(BRAND_WHITELIST)) + 1]
          \o AnyChars \o WB \o Lit("for") \o Spaces(1, Unbounded)
          \o Lit(BRAND_WHITELIST[((n - 1) % Len(BRAND_WHITELIST)) + 1]) \o WB
          \o AnyChars \o WB \o Lit("battery") \o WB ]

\* line 34
PARTS_AI_RE ==
    <<WB \o Lit("parts") \o Spaces(0, Unbounded) \o Lit("ai") \o Digits(1, Unbounded) \o WB>>

PrefilteredLower(t) == Search(GENERIC_BATTERY_RE, t) \/ Search(PARTS_AI_RE, t)

\* lines 188-189
Prefiltered(title) == PrefilteredLower(Lower(title))

bad_terms ==
    << "for parts", "parts only", "as-is", "as is", "not working", "doesn't work",
       "does not work", "broken", "defective", "faulty", "no power", "untested",
       "shell", "housing", "sticker", "skin", "decal", "wrap", "vinyl", "faceplate",
       "bezel", "repair", "spares", "scrap", "junk", "damaged",
       "case only", "bag only", "cover only" >>

accessory_terms ==
    << "hard case", "carrying case", "travel case", "case for ",
       "bag", "pouch", "holster", "cover", "sleeve",
       "holder", "bit holder", "bit set", "flex shaft", "right angle flex shaft",
       "attachment", "adapter", "battery adapter", "mount", "strap",
       "organizer", "insert tray", "tray insert", "insert organizer", "insert for",
       "replacement housing", "replacement shell" >>

\* line 90
for_brand_words ==
    << "case", "cover", "adapter", "holder", "holster", "mount", "strap", "sticker",
       "skin", "decal", "wrap", "organizer", "tray", "insert" >>

oem_tokens == << "oem", "genuine", "original", "authentic", "factory" >>

\* any(f"for {b}" in t for b in BRAND_WHITELIST)
HasForBrand(t) ==
    \E j \in 1..Len(BRAND_WHITELIST) : Contains(t, "for " \o BRAND_WHITELIST[j])

\* lines 94-107
BatteryRules(t, has_for_brand, has_battery, has_capacity, has_oem) ==
    IF has_battery /\ has_for_brand /\ ~has_oem THEN FALSE
    ELSE IF has_battery /\ has_for_brand /\ has_capacity /\ ~has_oem THEN FALSE
    ELSE IF has_battery /\ has_for_brand
            /\ (Contains(t, "compatible with") \/ Contains(t, "fits "))
    THEN FALSE
    ELSE TRUE

\* lines 82-118, for the lower-cased title
QualityLower(t) ==
    IF AnyIn(bad_terms, t) THEN FALSE
    ELSE IF AnyIn(accessory_terms, t) THEN FALSE
    ELSE IF Contains(t, " for ") /\ HasForBrand(t) /\ AnyIn(for_brand_words, t)
    THEN FALSE
    ELSE IF ~BatteryRules(t, HasForBrand(t), Contains(t, "battery"),
                          Search(CAPACITY_RE, t), AnyIn(oem_tokens, t))
    THEN FALSE
    ELSE IF Search(PARTS_AI_RE, t) THEN FALSE
    ELSE IF ~AnyIn(BRAND_WHITELIST, t) THEN FALSE
    ELSE TRUE

\* lines 58-118
is_quality_title(title) == QualityLower(Lower(title))

\* line 198: " ".join(title.lower().split())
NormTitle(title) == Join(Split(Lower(title)))

---------------------------------------------------------------------------
(* mercari_scraper.py: the gate of the live scan.  BRAND_WHITELIST,          *)
(* GENERIC_BATTERY_RE and PARTS_AI_RE of lines 126-135 are written exactly   *)
(* as in ebay_scraper.py and share the definitions above.                    *)

\* lines 137-145
ACCESSORY_TERMS ==
    << "hard case", "carrying case", "travel case", "case for ",
       "bag", "pouch", "holster", "cover", "sleeve",
       "holder", "bit holder", "bit set", "flex shaft", "attachment",
       "adapter", "battery adapter", "mount", "strap",
       "organizer", "insert tray", "tray insert", "insert organizer", "insert for",
       "replacement housing", "replacement shell" >>

\* lines 147-151
BAD_TERMS ==
    << "for parts", "parts only", "as-is", "as is", "not working", "doesn't work",
       "does not work", "broken", "defective", "faulty", "no power", "untested",
       "shell", "housing", "sticker", "skin", "decal", "wrap", "faceplate",
       "bezel", "repair", "spares", "scrap", "junk", "damaged" >>

\* lines 153-155
is_brand_ok(title) == AnyIn(BRAND_WHITELIST, Lower(title))

\* lines 160-171, for the lower-cased title
MercariQualityLower(t) ==
    IF AnyIn(BAD_TERMS, t) THEN FALSE
    ELSE IF AnyIn(ACCESSORY_TERMS, t) THEN FALSE
    ELSE IF Search(GENERIC_BATTERY_RE, t) \/ Search(PARTS_AI_RE, t) THEN FALSE
    ELSE IF Contains(t, " for ") /\ HasForBrand(t) /\ AnyIn(for_brand_words, t)
    THEN FALSE
    ELSE TRUE

\* lines 158-171
is_quality_title_mercari(title) == MercariQualityLower(Lower(title))

\* search_ebay_api, lines 188-195: a title passes the prefilter and the gate
ApiGate(title) == ~Prefiltered(title) /\ is_quality_title(title)

\* scan_mercari_live, line 252
LiveGate(title) == is_brand_ok(title) /\ is_quality_title_mercari(title)

---------------------------------------------------------------------------
(* Listings.  A JSON value that should be a number is                      *)
(*   num     : a number, or a string float() accepts, in cents             *)
(*   missing : the key is absent                                           *)
(*   null    : null (or an empty string)                                   *)
(*   text    : a string float() rejects                                    *)

Num(c) == [kind |-> "num", cents |-> c]
Missing == [kind |-> "missing", cents |-> 0]
Null == [kind |-> "null", cents |-> 0]
Text == [kind |-> "text", cents |-> 0]

\* an item of the Browse API's itemSummaries; "" stands for an absent or
\* empty title or itemWebUrl, ship for the shippingCost values
RawItem(title, price, url, opts, ship) ==
    [title |-> title, price |-> price, url |-> url, opts |-> opts, ship |-> ship]

\* an entry of results.json
Listing(hasTitle, title, price, hasUrl, url, opts, is_auction, shipping_cost, total) ==
    [hasTitle |-> hasTitle, title |-> title, price |-> price, hasUrl |-> hasUrl,
     url |-> url, buying_options |-> opts, is_auction |-> is_auction,
     shipping_cost |-> shipping_cost, total_price |-> total]

TitleFluke == "Fluke 117 Multimeter Tested"
TitleFlukeAgain == "fluke  117   multimeter TESTED"
TitleDewalt == "DeWalt DCF887 Impact Driver Tool Only"
TitleMilwaukee == "Milwaukee M18 Fuel Drill 2801-20 Tool Only"
TitleBosch == "Bosch laser level kit with case"
TitleHolster == "Fluke 117 Holster"
TitleGeneric == "9.0Ah For RYOBI P108 18V Battery"

Titles ==
    {TitleFluke, TitleFlukeAgain, TitleDewalt, TitleMilwaukee, TitleBosch,
     TitleHolster, TitleGeneric}

\* the text functions on the titles of the model, computed once
QueryOf == [t \in Titles |-> to_search_query(t)]
QualityOf == [t \in Titles |-> is_quality_title(t)]
PrefilteredOf == [t \in Titles |-> Prefiltered(t)]
NormTitleOf == [t \in Titles |-> NormTitle(t)]

---------------------------------------------------------------------------
(* mercari_scraper.py: configuration *)

CACHE_TTL_HOURS == 24
MAX_CARDS == 15

RETRY_ATTEMPTS(cl) == IF cl THEN 4 ELSE 2

\* line 22, in tenths of a second
BASE_DELAY(cl) == IF cl THEN 12 ELSE 5

\* the key without .lower()
CacheKeyNoLower(query) == Strip(query)

\* key = (query or "").strip().lower()
CacheKey(query) == Lower(Strip(query))

Queries == {"fluke 117", " Fluke 117 ", "dewalt dcf887"}
\* the key of each query, computed once
KeyOf == [q \in Queries |-> CacheKey(q)]
\* the keys of the queries analyze_item makes for the titles of the model
TitleKeyOf == [t \in Titles |-> CacheKey(QueryOf[t])]
KeySet == {KeyOf[q] : q \in Queries} \cup {TitleKeyOf[t] : t \in Titles}

---------------------------------------------------------------------------
(* The cache file.  An entry of the JSON mapping is                        *)
(*   none    : the key is absent                                           *)
(*   falsy   : null, {}, 0, "", [] (Python-falsy values)                   *)
(*   nondict : a truthy value without .get (string, number, list)          *)
(*   dict    : a mapping; okts says its "ts" parses as an ISO timestamp,   *)
(*             okval that float(avg_resale_price) and int(volume_30d)      *)
(*             succeed.                                                    *)

Entry(kind, okval, avg, vol, okts, ts) ==
    [kind |-> kind, okval |-> okval, avg |-> avg, vol |-> vol, okts |-> okts, ts |-> ts]

NoEntry == Entry("none", FALSE, 0, 0, FALSE, 0)
FalsyEntry == Entry("falsy", FALSE, 0, 0, FALSE, 0)
NonDictEntry == Entry("nondict", FALSE, 0, 0, FALSE, 0)
Comp(avg, vol, ts) == Entry("dict", TRUE, avg, vol, TRUE, ts)
BadTsEntry(avg, vol) == Entry("dict", TRUE, avg, vol, FALSE, 0)
BadValEntry(ts) == Entry("dict", FALSE, 0, 0, TRUE, ts)

EmptyMap == [k \in KeySet |-> NoEntry]

\* file kinds: "unreadable" (missing, unreadable or not JSON),
\*             "nonmap" (valid JSON that is not a mapping), "map"
FileMap(m) == [kind |-> "map", m |-> m]
UnreadableFile == [kind |-> "unreadable", m |-> EmptyMap]
NonMapFile == [kind |-> "nonmap", m |-> EmptyMap]

\* load_cache(): json.load's value, or {} on any exception
LoadCache(f) ==
    CASE f.kind = "map" -> [isdict |-> TRUE, m |-> f.m]
      [] f.kind = "nonmap" -> [isdict |-> FALSE, m |-> EmptyMap]
      [] OTHER -> [isdict |-> TRUE, m |-> EmptyMap]

\* save_cache(cache): disk is the outcome of the write:
\*   "ok"   the file now holds the mapping
\*   "fail" open() raised (the file cannot be written); the exception is
\*          swallowed and the file is as before
SaveCache(f, m, disk) == IF disk = "ok" THEN FileMap(m) ELSE f

DiskOutcomes == {"ok", "fail"}

---------------------------------------------------------------------------
(* The sold-listings page: exc says BeautifulSoup/select raised; cards are *)
(* the item cells, each a price in cents or NoPrice (no price tag, or      *)
(* clean_price raised).                                                    *)

NoPrice == -1

Page(exc, cards) == [exc |-> exc, cards |-> cards]

NoPage == Page(FALSE, <<>>)

Pages ==
    { Page(FALSE, <<>>),
      Page(FALSE, [i \in 1..(MAX_CARDS + 1) |->
                     IF i = 2 THEN NoPrice ELSE IF i <= MAX_CARDS THEN 3000 + i ELSE 9000]),
      Page(TRUE, <<>>) }

IsPrice(c) == c # NoPrice

\* for card in cards[:15]: prices.append(clean_price(...)) unless it raises
Prices(cards) ==
    SelectSeq(SubSeq(cards, 1, IF Len(cards) < MAX_CARDS THEN Len(cards) ELSE MAX_CARDS),
              IsPrice)

RECURSIVE SumSeq(_)
SumSeq(s) == IF Len(s) = 0 THEN 0 ELSE s[1] + SumSeq(Tail(s))

\* round(n / d) to the nearest integer, ties to even (n >= 0, d > 0)
RoundDiv(n, d) ==
    LET q == n \div d
        r == n % d
    IN  IF 2 * r < d THEN q
        ELSE IF 2 * r > d THEN q + 1
        ELSE IF q % 2 = 0 THEN q ELSE q + 1

\* avg_price = round(sum(prices) / len(prices), 2), in cents
AvgPrice(prices) == IF Len(prices) = 0 THEN 0 ELSE RoundDiv(SumSeq(prices), Len(prices))

---------------------------------------------------------------------------
(* get_mercari_resale_data(query) *)

CompRet(avg, vol) == [kind |-> "comp", avg |-> avg, vol |-> vol]
RaiseRet == [kind |-> "raise", avg |-> 0, vol |-> 0]

\* if entry:
Truthy(e) == e.kind \in {"nondict", "dict"}

\* a window that is open at its end: age < 24h
ServedFreshStrict(e, t) ==
    /\ e.kind = "dict"
    /\ e.okts
    /\ t - e.ts < CACHE_TTL_HOURS
    /\ e.okval

\* the try block of lines 52-60 returns the entry
ServedFresh(e, t) ==
    /\ e.kind = "dict"
    /\ e.okts
    /\ t - e.ts <= CACHE_TTL_HOURS
    /\ e.okval

\* {"avg_resale_price": float(entry.get(..)), "volume_30d": int(entry.get(..))}
\* of the stale fallbacks; entry.get or the conversions may raise, and the
\* raise from inside the except handler propagates
StaleRet(e) == IF e.kind = "dict" /\ e.okval THEN CompRet(e.avg, e.vol) ELSE RaiseRet

\* the fetch produced no page to take prices from
FetchFailed(response, page) == response # "ok" \/ page.exc

\* the fallback of the else branch alone, without the except handler
FallsBackHttpOnly(entry, response, page) == response # "ok" /\ Truthy(entry)

\* lines 79-102 return the stale entry instead of writing
FallsBack(entry, response, page) == FetchFailed(response, page) /\ Truthy(entry)

\* a handler that writes only when it found prices
FinishFetchSkipEmpty(f, cache, key, entry, t, response, page, disk) ==
    LET prices == IF FetchFailed(response, page) THEN <<>> ELSE Prices(page.cards)
        avg == AvgPrice(prices)
        vol == Len(prices)
    IN  IF FallsBack(entry, response, page)
        THEN [file |-> f, ret |-> StaleRet(entry), stored |-> FALSE]
        ELSE IF vol = 0
        THEN [file |-> f, ret |-> CompRet(0, 0), stored |-> FALSE]
        ELSE [file |-> SaveCache(f, [cache EXCEPT ![key] = Comp(avg, vol, t)], disk),
              ret |-> CompRet(avg, vol), stored |-> TRUE]

\* a handler that writes a mapping holding the fresh entry alone
FinishFetchFreshMap(f, cache, key, entry, t, response, page, disk) ==
    LET prices == IF FetchFailed(response, page) THEN <<>> ELSE Prices(page.cards)
        avg == AvgPrice(prices)
        vol == Len(prices)
    IN  IF FallsBack(entry, response, page)
        THEN [file |-> f, ret |-> StaleRet(entry), stored |-> FALSE]
        ELSE [file |-> SaveCache(f, [EmptyMap EXCEPT ![key] = Comp(avg, vol, t)], disk),
              ret |-> CompRet(avg, vol), stored |-> TRUE]

\* lines 79-122: parse the page or fall back, write the fresh entry, return.
\* f is the file at that moment, cache the mapping loaded at line 47.
FinishFetch(f, cache, key, entry, t, response, page, disk) ==
    LET prices == IF FetchFailed(response, page) THEN <<>> ELSE Prices(page.cards)
        avg == AvgPrice(prices)
        vol == Len(prices)
    IN  IF FallsBack(entry, response, page)
        THEN [file |-> f, ret |-> StaleRet(entry), stored |-> FALSE]
        ELSE [file |-> SaveCache(f, [cache EXCEPT ![key] = Comp(avg, vol, t)], disk),
              ret |-> CompRet(avg, vol), stored |-> TRUE]

\* lines 44-122 as one call: response is the value the retry loop leaves
\* ("ok", "bad", or "none" when every attempt raised)
get_mercari_resale_data(f, t, key, response, page, disk) ==
    LET cache == LoadCache(f)
        entry == cache.m[key]
    IN  IF ~cache.isdict THEN [file |-> f, ret |-> RaiseRet]
        ELSE IF Truthy(entry) /\ ServedFresh(entry, t)
        THEN [file |-> f, ret |-> CompRet(entry.avg, entry.vol)]
        ELSE LET out == FinishFetch(f, cache.m, key, entry, t, response, page, disk)
             IN  [file |-> out.file, ret |-> out.ret]

---------------------------------------------------------------------------
(* resale_estimator.py: thresholds and the economics of analyze_item.      *)
(* Dollars are cents, the fee a whole percentage, ROI tenths of a percent. *)

MIN_VOLUME == 10
MIN_PROFIT == 2000
MIN_ROI_PCT == 200
FEES_PERCENT == 13
NEAR_MISS_DOLLARS == 500
NEAR_MISS_ROI_PCT == 50

Thresholds(minVolume, minProfit, minRoi) ==
    [minVolume |-> minVolume, minProfit |-> minProfit, minRoi |-> minRoi,
     fees |-> FEES_PERCENT, nearDollars |-> NEAR_MISS_DOLLARS,
     nearRoi |-> NEAR_MISS_ROI_PCT]

\* the fallbacks of lines 8-16
DefaultThresholds == Thresholds(MIN_VOLUME, MIN_PROFIT, MIN_ROI_PCT)

\* round(n / d) to the nearest integer, ties to even, for any sign of n
Round(n, d) == IF n >= 0 THEN RoundDiv(n, d) ELSE 0 - RoundDiv(0 - n, d)

Max(a, b) == IF a >= b THEN a ELSE b

\* estimated_profit = round(avg_resale * (1 - FEES_PERCENT) - buy_price, 2)
EstimatedProfit(t, buy, avg) == Round(avg * (100 - t.fees) - 100 * buy, 100)

\* roi = round(estimated_profit / buy_price * 100, 1) if buy_price > 0 else 0.0
RoiPercent(profit, buy) == IF buy > 0 THEN Round(profit * 1000, buy) ELSE 0

ProfitReason == "profit within $NEAR_MISS_DOLLARS of min"
RoiReason == "ROI within NEAR_MISS_ROI_PCT% of min"

\* a flip decision with > where line 128 has >=
FlipDecisionStrict(t, volume, profit, roi) ==
    volume > t.minVolume /\ profit > t.minProfit /\ roi > t.minRoi

\* line 128
FlipDecision(t, volume, profit, roi) ==
    volume >= t.minVolume /\ profit >= t.minProfit /\ roi >= t.minRoi

FlipResult(buy, avg, volume, profit, roi, flip, near, reasons) ==
    [valid |-> TRUE, buy |-> buy, avg |-> avg, volume |-> volume, profit |-> profit,
     roi |-> roi, flip |-> flip, near_miss |-> near, reasons |-> reasons]

NoResult ==
    [valid |-> FALSE, buy |-> 0, avg |-> 0, volume |-> 0, profit |-> 0, roi |-> 0,
     flip |-> FALSE, near_miss |-> FALSE, reasons |-> <<>>]

\* a near-miss test that forgets the 'not flip' of line 133
NearMissConsideredAnyFlip(t, volume, flip) == volume >= Max(1, t.minVolume - 1)

\* line 133: if not flip and volume >= max(1, MIN_VOLUME - 1)
NearMissConsidered(t, volume, flip) ==
    ~flip /\ volume >= Max(1, t.minVolume - 1)

\* lines 107-155 of analyze_item: the result for a buy price and a comp
Evaluate(t, buy, avg, volume) ==
    LET profit == EstimatedProfit(t, buy, avg)
        roi == RoiPercent(profit, buy)
        flip == FlipDecision(t, volume, profit, roi)
        considered == NearMissConsidered(t, volume, flip)
        byProfit == considered /\ profit >= t.minProfit - t.nearDollars
        byRoi == considered /\ roi >= t.minRoi - t.nearRoi
        reasons == (IF byProfit THEN <<ProfitReason>> ELSE <<>>)
                   \o (IF byRoi THEN <<RoiReason>> ELSE <<>>)
    IN  IF avg = 0 \/ volume = 0
        THEN FlipResult(buy, avg, volume, 0, 0, FALSE, FALSE, <<>>)
        ELSE FlipResult(buy, avg, volume, profit, roi, flip, byProfit \/ byRoi, reasons)

---------------------------------------------------------------------------
(* ebay_scraper.py: search_ebay_api and the main script *)

\* not (price_val and title and weburl), line 184
MissingField(it) ==
    it.price.kind \in {"missing", "null"} \/ it.title = "" \/ it.url = ""

\* lines 208-217: the smallest shippingCost value float() accepts, Null for None
RECURSIVE ShippingCost(_, _, _)
ShippingCost(ship, i, best) ==
    IF i > Len(ship) THEN best
    ELSE IF ship[i].kind # "num" THEN ShippingCost(ship, i + 1, best)
    ELSE IF best.kind = "num" /\ best.cents <= ship[i].cents
    THEN ShippingCost(ship, i + 1, best)
    ELSE ShippingCost(ship, i + 1, ship[i])

\* line 220
OverCeiling(max_shipping, shipping_cost) ==
    /\ max_shipping.kind = "num"
    /\ shipping_cost.kind = "num"
    /\ shipping_cost.cents > max_shipping.cents

\* line 225
IsAuction(opts) == "AUCTION" \in opts /\ "FIXED_PRICE" \notin opts

\* a duplicate test that looks at the URL alone
DuplicateByUrlOnly(acc, it) == it.url \in acc.seen_urls

\* line 199
Duplicate(acc, it) ==
    it.url \in acc.seen_urls \/ NormTitleOf[it.title] \in acc.seen_titles

NoScan ==
    [results |-> <<>>, seen_urls |-> {}, seen_titles |-> {}, gated |-> <<>>,
     kept |-> <<>>]

\* lines 178-240: the loop from item i on; gated lists the items
\* is_quality_title was called on, kept the positions of the items appended
RECURSIVE ScanItems(_, _, _, _)
ScanItems(items, i, max_shipping, acc) ==
    IF i > Len(items) THEN acc
    ELSE
    LET it == items[i]
        shipping_cost == ShippingCost(it.ship, 1, Null)
        seen == [acc EXCEPT !.gated = Append(@, it)]
        kept == [seen EXCEPT
                   !.results = Append(@,
                       Listing(TRUE, it.title, it.price, TRUE, it.url, it.opts,
                               IsAuction(it.opts), shipping_cost,
                               it.price.cents + shipping_cost.cents)),
                   !.seen_urls = @ \cup {it.url},
                   !.seen_titles = @ \cup {NormTitleOf[it.title]},
                   !.kept = Append(@, i)]
        next ==
            IF MissingField(it) THEN acc
            ELSE IF PrefilteredOf[it.title] THEN acc
            ELSE IF ~QualityOf[it.title] THEN seen
            ELSE IF Duplicate(acc, it) THEN seen
            ELSE IF it.price.kind # "num" THEN seen
            ELSE IF OverCeiling(max_shipping, shipping_cost) THEN seen
            ELSE kept
    IN  IF Len(next.gated) >= 0 THEN ScanItems(items, i + 1, max_shipping, next) ELSE next

\* a response of the Browse API: ok says status 200
Batch(ok, items) == [ok |-> ok, items |-> items]

\* lines 120-241
search_ebay_api(batch, max_shipping) ==
    IF ~batch.ok THEN NoScan ELSE ScanItems(batch.items, 1, max_shipping, NoScan)

\* lines 267-271: all_results.extend(found) for each keyword
RECURSIVE AllResults(_, _, _)
AllResults(batches, k, max_shipping) ==
    IF k > Len(batches)
    THEN [results |-> <<>>, gated |-> <<>>, found |-> <<>>, kept |-> <<>>]
    ELSE LET found == search_ebay_api(batches[k], max_shipping)
             rest == AllResults(batches, k + 1, max_shipping)
         IN  [results |-> found.results \o rest.results,
              gated |-> found.gated \o rest.gated,
              found |-> <<found.results>> \o rest.found,
              kept |-> <<found.kept>> \o rest.kept]

---------------------------------------------------------------------------
(* resale_estimator.py: analyze_item and run_analysis *)

ANALYZE_LIMIT == 60

\* a row of the report
Row(item, res) ==
    [title |-> item.title, buy_price |-> item.price, url |-> item.url,
     category |-> "Unknown", res |-> res]

NoRow == Row(Listing(FALSE, "", Missing, FALSE, "", {}, FALSE, Null, 0), NoResult)

Outcome(err, f, row) == [err |-> err, file |-> f, row |-> row]

\* lines 99-155, with the answer of get_mercari_resale_data
AnalyzeComp(item, th, comp) ==
    IF comp.ret.kind = "raise" THEN Outcome("Exception", comp.file, NoRow)
    ELSE IF comp.ret.avg = 0 \/ comp.ret.vol = 0
    THEN IF item.hasUrl
         THEN Outcome("", comp.file,
                      Row(item, Evaluate(th, item.price.cents, comp.ret.avg, comp.ret.vol)))
         ELSE Outcome("KeyError", comp.file, NoRow)
    ELSE IF item.price.kind # "num" THEN Outcome("TypeError", comp.file, NoRow)
    ELSE IF ~item.hasUrl THEN Outcome("KeyError", comp.file, NoRow)
    ELSE Outcome("", comp.file,
                 Row(item, Evaluate(th, item.price.cents, comp.ret.avg, comp.ret.vol)))

\* lines 91-155: err names the exception that escapes, "" for a normal
\* return; file is the cache file the call leaves
analyze_item(item, f, t, th, response, page, disk) ==
    IF ~item.hasTitle \/ item.price.kind = "missing"
    THEN Outcome("KeyError", f, NoRow)
    ELSE AnalyzeComp(item, th,
             get_mercari_resale_data(f, t, TitleKeyOf[item.title], response, page, disk))

\* float(it.get("price") or 0), line 167
SortKey(item) == IF item.price.kind = "num" THEN item.price.cents ELSE 0
SortKeyRaises(item) == item.price.kind = "text"

\* an insertion that puts i before the listings of equal price
InsertByPriceBefore(items, order, i) ==
    LET n == Cardinality({j \in 1..Len(order) :
                             SortKey(items[order[j]]) < SortKey(items[i])})
    IN  SubSeq(order, 1, n) \o <<i>> \o SubSeq(order, n + 1, Len(order))

\* sorted() is stable: i goes after the listings of lower or equal price
InsertByPrice(items, order, i) ==
    LET n == Cardinality({j \in 1..Len(order) :
                             SortKey(items[order[j]]) <= SortKey(items[i])})
    IN  SubSeq(order, 1, n) \o <<i>> \o SubSeq(order, n + 1, Len(order))

\* the positions of items in the order sorted() gives
RECURSIVE SortedFrom(_, _, _)
SortedFrom(items, order, i) ==
    IF i > Len(items) THEN order
    ELSE SortedFrom(items, InsertByPrice(items, order, i), i + 1)

\* lines 167-168: sorted(...)[:limit]
Selected(items, limit) == Take(SortedFrom(items, <<>>, 1), limit)

\* a skip of the listings that offer an auction and nothing else
AuctionOnlyExact(buying_options) == buying_options = {"AUCTION"}

\* line 175
AuctionOnly(buying_options) ==
    "AUCTION" \in buying_options /\ "FIXED_PRICE" \notin buying_options

---------------------------------------------------------------------------
(* The batch pipeline at rest *)

NoResults == [exists |-> FALSE, items |-> <<>>]
ResultsFile(items) == [exists |-> TRUE, items |-> items]

NoReport == [exists |-> FALSE, rows |-> <<>>]

\* found[k] is what search_ebay_api returned for the k-th keyword, kept[k]
\* the positions of these listings in the response
ScanIdle ==
    [pc |-> "idle", batches |-> <<>>, max_shipping |-> Null, gated |-> <<>>,
     found |-> <<>>, kept |-> <<>>]

RunIdle ==
    [pc |-> "idle", limit |-> 0, items |-> <<>>, order |-> <<>>, pos |-> 0,
     report |-> <<>>, analyzed |-> <<>>, skipped |-> <<>>, err |-> ""]

BatchIdle ==
    /\ scan = ScanIdle
    /\ results = NoResults
    /\ run = RunIdle
    /\ flipReport = NoReport

---------------------------------------------------------------------------
(* The cache under sequential use: one call at a time, stepping through    *)
(* the handler: Begin (lines 45-64), Attempt (one turn of the retry loop,  *)
(* lines 67-77), Finish (lines 79-122).                                    *)

\* delays lists the time.sleep calls of the retry loop
Idle ==
    [pc |-> "idle", query |-> "", key |-> "", t |-> 0, cache |-> EmptyMap,
     entry |-> NoEntry, attempt |-> 0, response |-> "none", delays |-> <<>>]

NoCall ==
    [valid |-> FALSE, query |-> "", key |-> "", t |-> 0, pre |-> UnreadableFile,
     entry |-> NoEntry, fetched |-> FALSE, got200 |-> FALSE, pageexc |-> FALSE,
     stored |-> FALSE, disk |-> "none", ret |-> RaiseRet]

NoPrev == [valid |-> FALSE, query |-> "", t |-> 0, fetched |-> FALSE, stored |-> FALSE,
           disk |-> "none", ret |-> RaiseRet]

Summary(l) == [valid |-> l.valid, query |-> l.query, t |-> l.t, fetched |-> l.fetched,
               stored |-> l.stored, disk |-> l.disk, ret |-> l.ret]

\* no title has been handed to the gates yet
NoGate ==
    [valid |-> FALSE, title |-> "", prefiltered |-> FALSE, quality |-> FALSE,
     api |-> FALSE, live |-> FALSE, query |-> ""]

\* a pipeline before its lookup: cache is its in-memory copy of the mapping
ProcIdle ==
    [pc |-> "idle", key |-> "", t |-> 0, cache |-> EmptyMap, entry |-> NoEntry,
     ret |-> RaiseRet, wrote |-> FALSE]

Pipelines == {1, 2}

NoProcs == [p \in Pipelines |-> ProcIdle]

OthersIdle ==
    /\ gate = NoGate
    /\ procs = NoProcs

InitEntries ==
    { NoEntry, FalsyEntry, NonDictEntry,
      Comp(2500, 4, 0),
      Comp(2500, 4, 0 - CACHE_TTL_HOURS),
      Comp(2500, 4, 0 - CACHE_TTL_HOURS - 1),
      BadTsEntry(2500, 4),
      BadValEntry(0),
      BadValEntry(0 - CACHE_TTL_HOURS - 1) }

OtherEntry == Comp(7000, 12, 0 - CACHE_TTL_HOURS - 1)

InitFiles ==
    {UnreadableFile, NonMapFile} \cup
    { FileMap([k \in KeySet |-> IF k = "fluke 117" THEN a ELSE OtherEntry]) :
        a \in InitEntries }

Init ==
    /\ file \in InitFiles
    /\ now = 0
    /\ cloud \in BOOLEAN
    /\ call = Idle
    /\ last = NoCall
    /\ prev = NoPrev
    /\ ncalls = 0
    /\ nticks = 0
    /\ thr = DefaultThresholds
    /\ fres = NoResult
    /\ BatchIdle
    /\ OthersIdle

\* lines 45-64: key, now, load_cache, serve a fresh entry
Begin(query) ==
    LET key == KeyOf[query]
        cache == LoadCache(file)
        entry == cache.m[key]
        obs == [NoCall EXCEPT !.valid = TRUE, !.query = query, !.key = key, !.t = now,
                              !.pre = file, !.entry = entry]
    IN  /\ call.pc = "idle"
        /\ ncalls < MaxCalls
        /\ ncalls' = ncalls + 1
        /\ IF ~cache.isdict
           THEN \* cache.get(key): AttributeError
                /\ last' = [obs EXCEPT !.ret = RaiseRet]
                /\ prev' = Summary(last)
                /\ call' = Idle
           ELSE IF Truthy(entry) /\ ServedFresh(entry, now)
           THEN /\ last' = [obs EXCEPT !.ret = CompRet(entry.avg, entry.vol)]
                /\ prev' = Summary(last)
                /\ call' = Idle
           ELSE /\ call' = [pc |-> "fetch", query |-> query, key |-> key, t |-> now,
                            cache |-> cache.m, entry |-> entry, attempt |-> 0,
                            response |-> "none", delays |-> <<>>]
                /\ UNCHANGED <<last, prev>>
        /\ UNCHANGED <<file, now, cloud, nticks, flipVars, gateVars, raceVars, batchVars>>

\* a retry loop without the break of line 74
AttemptNoBreak(o) ==
    /\ call.pc = "fetch"
    /\ call.attempt < RETRY_ATTEMPTS(cloud)
    /\ call' = [call EXCEPT !.attempt = @ + 1,
                            !.response = IF o = "exc" THEN @ ELSE o,
                            !.delays = IF o = "ok" THEN @
                                       ELSE Append(@, BASE_DELAY(cloud) * (call.attempt + 1))]
    /\ UNCHANGED <<file, now, cloud, last, prev, ncalls, nticks, flipVars, gateVars,
                   raceVars, batchVars>>

\* lines 67-77: one HTTP attempt; o is "ok" (status 200), "bad" (another
\* status) or "exc" (requests.get raised, response keeps its old value);
\* every attempt but a 200 is followed by time.sleep(BASE_DELAY * (attempt + 1))
Attempt(o) ==
    /\ call.pc = "fetch"
    /\ call.attempt < RETRY_ATTEMPTS(cloud)
    /\ call.response # "ok"
    /\ call' = [call EXCEPT !.attempt = @ + 1,
                            !.response = IF o = "exc" THEN @ ELSE o,
                            !.delays = IF o = "ok" THEN @
                                       ELSE Append(@, BASE_DELAY(cloud) * (call.attempt + 1))]
    /\ UNCHANGED <<file, now, cloud, last, prev, ncalls, nticks, flipVars, gateVars,
                   raceVars, batchVars>>

AttemptOutcomes == {"ok", "bad", "exc"}

LoopDone == call.response = "ok" \/ call.attempt = RETRY_ATTEMPTS(cloud)

\* lines 79-122
Finish(page, disk) ==
    LET out == FinishFetch(file, call.cache, call.key, call.entry, call.t,
                           call.response, page, disk)
    IN  /\ call.pc = "fetch"
        /\ LoopDone
        /\ file' = out.file
        /\ last' = [valid |-> TRUE, query |-> call.query, key |-> call.key, t |-> call.t,
                    pre |-> file, entry |-> call.entry, fetched |-> TRUE,
                    got200 |-> (call.response = "ok"), pageexc |-> page.exc,
                    stored |-> out.stored, disk |-> disk, ret |-> out.ret]
        /\ prev' = Summary(last)
        /\ call' = Idle
        /\ UNCHANGED <<now, cloud, ncalls, nticks, flipVars, gateVars, raceVars, batchVars>>

\* the page exists only after a 200, the write only when line 117 is reached
PageChoices == IF call.response = "ok" THEN Pages ELSE {NoPage}
DiskChoices(page) ==
    IF FallsBack(call.entry, call.response, page) THEN {"none"} ELSE DiskOutcomes

\* time passes between two calls (the age of the entries at the first call
\* is chosen by Init)
Tick(d) ==
    /\ call.pc = "idle"
    /\ 0 < ncalls /\ ncalls < MaxCalls
    /\ nticks < MaxTicks
    /\ now' = now + d
    /\ nticks' = nticks + 1
    /\ UNCHANGED <<file, cloud, call, last, prev, ncalls, flipVars, gateVars, raceVars, batchVars>>

TickSteps == {CACHE_TTL_HOURS, CACHE_TTL_HOURS + 1}

Next ==
    \/ \E q \in Queries : Begin(q)
    \/ \E o \in AttemptOutcomes : Attempt(o)
    \/ \E page \in PageChoices : \E disk \in DiskChoices(page) : Finish(page, disk)
    \/ \E d \in TickSteps : Tick(d)

Spec == Init /\ [][Next]_vars

---------------------------------------------------------------------------
(* Properties of the resale cache *)

\* the spec's cache key of a query: trimmed and lower-cased
TrimmedLower == [q \in Queries |-> Lower(Strip(q))]

\* a well-formed ResaleComp entry
IsComp(e) == e.kind = "dict" /\ e.okts /\ e.okval

\* the entry the file holds for a key, as a reader of the file sees it
Persisted(f, key) == LoadCache(f).m[key]

LastFailed == last.fetched /\ (~last.got200 \/ last.pageexc)
LastSucceeded == last.fetched /\ last.got200 /\ ~last.pageexc

\* two completed calls in a row with the same key, the second within the
\* freshness window of the first
TwoCallsInWindow ==
    /\ prev.valid
    /\ last.valid
    /\ TrimmedLower[prev.query] = TrimmedLower[last.query]
    /\ last.t - prev.t <= CACHE_TTL_HOURS

Fetches(c) == IF c.fetched THEN 1 ELSE 0

\* C1 as claimed: two calls with the same key within the window trigger exactly
\* one fetch in total, whatever the cache held and whatever the fetch met.
C1_ExactlyOneFetchAlways ==
    TwoCallsInWindow => Fetches(prev) + Fetches(last) = 1

\* C1 amended: the two calls trigger exactly one fetch when the first call
\* fetches and its result is written to the cache file (the second is then
\* served that value); when the first call fetches and nothing is written (a
\* failed fetch over an existing entry, or a failed write) the second call
\* fetches again.
C1_OneFetchWhenStored ==
    TwoCallsInWindow =>
        /\ (prev.fetched /\ prev.stored /\ prev.disk = "ok")
              => (~last.fetched /\ last.ret = prev.ret)
        /\ (prev.fetched /\ ~(prev.stored /\ prev.disk = "ok")) => last.fetched

C1_Witness ==
    /\ TwoCallsInWindow
    /\ prev.query # last.query
    /\ last.t - prev.t = CACHE_TTL_HOURS
    /\ prev.fetched /\ prev.stored /\ prev.disk = "ok"
    /\ ~last.fetched
    /\ last.ret.vol > 0

\* C2: a well-formed stale entry and a failed fetch: the call returns the
\* entry's average and volume, and the persisted entry is as it was.
C2_StaleOnError ==
    (/\ last.valid
     /\ IsComp(last.entry)
     /\ last.t - last.entry.ts > CACHE_TTL_HOURS
     /\ LastFailed)
    => /\ last.ret = CompRet(last.entry.avg, last.entry.vol)
       /\ Persisted(file, last.key) = last.entry

C2_Witness ==
    /\ last.valid
    /\ IsComp(last.entry)
    /\ last.t - last.entry.ts > CACHE_TTL_HOURS
    /\ last.got200 /\ last.pageexc
    /\ last.ret = CompRet(last.entry.avg, last.entry.vol)
    /\ last.ret.vol > 0

\* C3 as claimed: no prior entry and a failed fetch: the call returns the
\* zero-signal comp and the cache holds no entry for the key afterwards.
C3_FailureNotPersisted ==
    (/\ last.valid
     /\ last.entry.kind = "none"
     /\ LastFailed)
    => /\ last.ret = CompRet(0, 0)
       /\ Persisted(file, last.key).kind = "none"

\* C4: a well-formed entry aged at most 24 hours is returned as it is, with no
\* fetch and no change of the cache file.
C4_FreshServed ==
    (/\ last.valid
     /\ IsComp(last.entry)
     /\ last.t - last.entry.ts <= CACHE_TTL_HOURS)
    => /\ last.ret = CompRet(last.entry.avg, last.entry.vol)
       /\ ~last.fetched
       /\ file = last.pre

C4_Witness ==
    /\ last.valid
    /\ IsComp(last.entry)
    /\ last.t - last.entry.ts = CACHE_TTL_HOURS
    /\ last.ret = CompRet(last.entry.avg, last.entry.vol)
    /\ ~last.fetched

StaleLookup ==
    /\ last.valid
    /\ last.entry.kind = "dict"
    /\ last.entry.okts
    /\ last.t - last.entry.ts > CACHE_TTL_HOURS

\* C5 as claimed: a stale entry triggers a fetch, and every successful fetch
\* leaves the key's entry equal to (returned average, returned volume, time of
\* the call).
C5_SuccessAlwaysStored ==
    /\ StaleLookup => last.fetched
    /\ (last.valid /\ LastSucceeded)
          => /\ last.ret.kind = "comp"
             /\ Persisted(file, last.key) = Comp(last.ret.avg, last.ret.vol, last.t)

\* C5 amended: the same, for every successful fetch whose cache write
\* succeeds; save_cache swallows a failed write and the value is then returned
\* without being stored.
C5_SuccessStoredWhenWritten ==
    /\ StaleLookup => last.fetched
    /\ (last.valid /\ LastSucceeded)
          => /\ last.ret.kind = "comp"
             /\ last.stored
             /\ (last.disk = "ok" =>
                   Persisted(file, last.key) = Comp(last.ret.avg, last.ret.vol, last.t))

C5_Witness ==
    /\ StaleLookup
    /\ IsComp(last.entry)
    /\ LastSucceeded
    /\ last.disk = "ok"
    /\ last.ret.vol = MAX_CARDS - 1
    /\ Persisted(file, last.key) = Comp(last.ret.avg, last.ret.vol, last.t)
    /\ Persisted(file, last.key) # last.entry

\* the cache file gave the call nothing usable for its key
BadCacheFile ==
    \/ last.pre.kind \in {"unreadable", "nonmap"}
    \/ last.entry.kind \in {"falsy", "nondict"}
    \/ (last.entry.kind = "dict" /\ ~(last.entry.okts /\ last.entry.okval))

\* C6 as claimed: whatever the cache file holds, the call returns a comp and
\* never raises.
C6_BadCacheNeverFatal ==
    (last.valid /\ BadCacheFile) => last.ret.kind = "comp"

\* the retry loop so far: at most RETRY_ATTEMPTS attempts, a delay of k base
\* delays after the k-th attempt that failed, none after a 200
RetryLoopInBounds ==
    call.pc = "fetch" =>
        /\ call.attempt <= RETRY_ATTEMPTS(cloud)
        /\ RETRY_ATTEMPTS(cloud) = (IF cloud THEN 4 ELSE 2)
        /\ Len(call.delays) =
              (IF call.response = "ok" THEN call.attempt - 1 ELSE call.attempt)
        /\ \A k \in 1..Len(call.delays) : call.delays[k] = k * BASE_DELAY(cloud)

\* a step of a lookup that has its 200 makes no further attempt
NoAttemptAfterSuccess ==
    (call.pc = "fetch" /\ call.response = "ok")
        => (call'.pc = "idle" \/ call'.attempt = call.attempt)

\* C19: a lookup that fetches makes at most RETRY_ATTEMPTS HTTP attempts (2,
\* or 4 in cloud mode), makes no attempt after a success response, and sleeps
\* k base delays after its k-th failed attempt.
C19_BoundedRetries == []RetryLoopInBounds /\ [][NoAttemptAfterSuccess]_vars

C19_Witness ==
    /\ call.pc = "fetch"
    /\ cloud
    /\ call.attempt = 4
    /\ call.response = "ok"
    /\ call.delays = <<12, 24, 36>>

\* a step removes no key and changes the persisted entry of no key but the
\* one of the call that is finishing, which becomes the value it returns
OnlyOwnKeyChanges ==
    \A k \in KeySet :
        /\ (Persisted(file, k).kind # "none") => (Persisted(file', k).kind # "none")
        /\ (Persisted(file', k) # Persisted(file, k)) =>
              /\ call.pc = "fetch"
              /\ k = call.key
              /\ last'.stored
              /\ Persisted(file', k) = Comp(last'.ret.avg, last'.ret.vol, call.t)

---------------------------------------------------------------------------
(* The flip evaluation as a function of its inputs: the environment sets   *)
(* the thresholds, each step evaluates one buy price against one comp.     *)

ThresholdConfigs ==
    { Thresholds(v, p, r) : v \in {0, 1, MIN_VOLUME}, p \in {0, MIN_PROFIT},
                            r \in {0, MIN_ROI_PCT} }

BuyPrices == {0, 1999, 5000, 6700, 7250, 10000}
AvgResales == {0, 2300, 6000, 10000, 13793}
Volumes == {0, 1, MIN_VOLUME - 1, MIN_VOLUME, MIN_VOLUME + 5}

InitFlip ==
    /\ file = UnreadableFile
    /\ now = 0
    /\ cloud = FALSE
    /\ call = Idle
    /\ last = NoCall
    /\ prev = NoPrev
    /\ ncalls = 0
    /\ nticks = 0
    /\ thr \in ThresholdConfigs
    /\ fres = NoResult
    /\ BatchIdle
    /\ OthersIdle

EvaluateStep(buy, avg, volume) ==
    /\ fres' = Evaluate(thr, buy, avg, volume)
    /\ UNCHANGED <<cacheVars, thr, batchVars, gateVars, raceVars>>

NextFlip ==
    \E buy \in BuyPrices, avg \in AvgResales, volume \in Volumes :
        EvaluateStep(buy, avg, volume)

SpecFlip == InitFlip /\ [][NextFlip]_vars

---------------------------------------------------------------------------
(* Properties of the flip evaluation *)

\* the claim's profit and ROI, in cents and tenths of a percent
ClaimProfit == Round(fres.avg * (100 - thr.fees) - 100 * fres.buy, 100)
ClaimRoi == IF fres.buy <= 0 THEN 0 ELSE Round(ClaimProfit * 1000, fres.buy)
ClaimFlip ==
    /\ fres.volume >= thr.minVolume
    /\ ClaimProfit >= thr.minProfit
    /\ ClaimRoi >= thr.minRoi

\* C10 as claimed: under every threshold configuration flip is true exactly
\* when volume, profit and ROI reach their thresholds.
C10_FlipIffThresholdsAlways ==
    fres.valid => (fres.flip <=> ClaimFlip)

\* C10 amended: the equivalence holds whenever the comp carries a signal
\* (average and volume both non-zero), and the reported profit and ROI are the
\* rounded values; without a signal flip is false whatever the thresholds are.
\* Buy 50, average 100, volume 15 under the default thresholds gives profit
\* 37.00, ROI 74.0 and flip.
C10_FlipIffThresholdsWithSignal ==
    fres.valid =>
        /\ (fres.avg # 0 /\ fres.volume # 0) =>
              /\ fres.flip <=> ClaimFlip
              /\ fres.profit = ClaimProfit
              /\ fres.roi = ClaimRoi
        /\ (fres.avg = 0 \/ fres.volume = 0) => ~fres.flip
        /\ (thr = DefaultThresholds /\ fres.buy = 5000 /\ fres.avg = 10000
              /\ fres.volume = 15)
              => (fres.profit = 3700 /\ fres.roi = 740 /\ fres.flip)

C10_Witness ==
    /\ fres.valid
    /\ thr = DefaultThresholds
    /\ fres.buy = 10000 /\ fres.avg = 13793 /\ fres.volume = MIN_VOLUME
    /\ fres.profit = MIN_PROFIT /\ fres.roi = MIN_ROI_PCT
    /\ fres.flip

\* two consecutive evaluations under the same thresholds that differ in the
\* average resale price alone: a flip stays a flip when the average rises
MonotoneInAvg ==
    (/\ fres.valid /\ fres'.valid
     /\ fres'.volume = fres.volume /\ fres'.buy = fres.buy
     /\ fres'.avg >= fres.avg /\ fres.flip) => fres'.flip

\* two consecutive evaluations that differ in the buy price alone: a non-flip
\* stays a non-flip when the buy price rises
MonotoneInBuy ==
    (/\ fres.valid /\ fres'.valid
     /\ fres'.volume = fres.volume /\ fres'.avg = fres.avg
     /\ fres'.buy >= fres.buy /\ ~fres.flip) => ~fres'.flip

\* C11: with volume, fees and thresholds fixed, the flip decision never falls
\* when avg_resale rises and never rises when buy_price rises.
C11_FlipMonotone == [][MonotoneInAvg /\ MonotoneInBuy]_vars

\* the claim's near-miss test on the reported figures
ClaimNearMiss(minVol) ==
    /\ ~fres.flip
    /\ fres.volume >= minVol
    /\ \/ fres.profit >= thr.minProfit - thr.nearDollars
       \/ fres.roi >= thr.minRoi - thr.nearRoi

\* reasons are listed profit first, each exactly when its margin is met
ReasonsMatch ==
    /\ (fres.reasons # <<>>) <=> fres.near_miss
    /\ fres.reasons \in {<<>>, <<ProfitReason>>, <<RoiReason>>,
                         <<ProfitReason, RoiReason>>}
    /\ (\E i \in DOMAIN fres.reasons : fres.reasons[i] = ProfitReason)
          <=> (fres.near_miss /\ fres.profit >= thr.minProfit - thr.nearDollars)
    /\ (\E i \in DOMAIN fres.reasons : fres.reasons[i] = RoiReason)
          <=> (fres.near_miss /\ fres.roi >= thr.minRoi - thr.nearRoi)

\* C12 as claimed: in every result near_miss is true exactly when flip is
\* false, volume >= minVolume - 1 and profit or ROI is within its margin of the
\* minimum; near_miss never comes with flip; the reasons are non-empty exactly
\* when near_miss is true, profit reason first.
C12_NearMissAlways ==
    fres.valid =>
        /\ fres.near_miss <=> ClaimNearMiss(thr.minVolume - 1)
        /\ ~(fres.near_miss /\ fres.flip)
        /\ ReasonsMatch

\* C12 amended: for a comp with a signal (average and volume both non-zero)
\* near_miss is true exactly when flip is false, volume >= max(1, minVolume - 1)
\* and profit or ROI is within its margin; for a comp without a signal
\* near_miss is false and the reasons are empty whatever the thresholds are;
\* near_miss never comes with flip; the reasons are non-empty exactly when
\* near_miss is true, profit reason first.
C12_NearMissWithSignal ==
    fres.valid =>
        /\ (fres.avg # 0 /\ fres.volume # 0) =>
              (fres.near_miss <=> ClaimNearMiss(Max(1, thr.minVolume - 1)))
        /\ (fres.avg = 0 \/ fres.volume = 0) =>
              (~fres.near_miss /\ fres.reasons = <<>>)
        /\ ~(fres.near_miss /\ fres.flip)
        /\ ReasonsMatch

C12_Witness ==
    /\ fres.valid
    /\ thr = DefaultThresholds
    /\ fres.volume = MIN_VOLUME - 1
    /\ ~fres.flip
    /\ fres.near_miss
    /\ fres.reasons = <<ProfitReason, RoiReason>>

---------------------------------------------------------------------------
(* The batch pipeline: ebay_scraper.py writes results.json, run_analysis   *)
(* reads it (or a results.json that was there before) and steps through    *)
(* its loop, one listing at a turn, then writes flip_report.json.          *)

Batch1 ==
    Batch(TRUE,
      << RawItem(TitleMilwaukee, Num(9000), "u1", {"FIXED_PRICE"}, <<>>),
         RawItem(TitleDewalt, Num(4500), "u2", {"AUCTION", "BEST_OFFER"}, <<Num(1000)>>),
         RawItem(TitleHolster, Num(2000), "u3", {"FIXED_PRICE"}, <<>>),
         RawItem(TitleFluke, Num(5000), "u4", {"FIXED_PRICE", "AUCTION"},
                 <<Null, Num(800), Num(500), Text>>),
         RawItem(TitleFlukeAgain, Num(4000), "u5", {"FIXED_PRICE"}, <<>>),
         RawItem(TitleGeneric, Num(3000), "u6", {"AUCTION"}, <<>>),
         RawItem(TitleBosch, Num(2500), "", {"FIXED_PRICE"}, <<>>),
         RawItem(TitleBosch, Text, "u7", {"FIXED_PRICE"}, <<>>),
         RawItem(TitleBosch, Num(2500), "u8", {"FIXED_PRICE"}, <<Num(2500)>>) >>)

Batch2 ==
    Batch(TRUE,
      << RawItem(TitleFluke, Num(5000), "u4", {"FIXED_PRICE"}, <<>>),
         RawItem(TitleMilwaukee, Num(5000), "u4", {"FIXED_PRICE"}, <<>>),
         RawItem(TitleDewalt, Num(5000), "u9", {"AUCTION"}, <<>>) >>)

FailedBatch == Batch(FALSE, <<>>)

\* the responses to the keywords of a run of the scraper
ScanInputs == { <<Batch1>>, <<Batch2, FailedBatch>>, <<Batch2, Batch2>> }

\* MAX_SHIPPING: unset, or 15 dollars
ShippingCeilings == {Null, Num(1500)}

\* listings of a results.json written by hand or by another tool
Plain(title, price, url, opts) ==
    Listing(TRUE, title, price, TRUE, url, opts, IsAuction(opts), Null, price.cents)
Untitled(price, url, opts) ==
    Listing(FALSE, "", price, TRUE, url, opts, IsAuction(opts), Null, price.cents)
NoUrl(title, price, opts) ==
    Listing(TRUE, title, price, FALSE, "", opts, IsAuction(opts), Null, price.cents)

ExistingLists ==
    { << Plain(TitleFluke, Num(5000), "u4", {"FIXED_PRICE"}),
         Untitled(Num(2000), "u3", {"FIXED_PRICE"}),
         Plain(TitleDewalt, Num(3000), "u2", {"FIXED_PRICE"}) >>,
      << Plain(TitleDewalt, Missing, "u2", {"FIXED_PRICE"}),
         Plain(TitleFluke, Num(5000), "u4", {"FIXED_PRICE"}) >>,
      << NoUrl(TitleFluke, Num(5000), {"FIXED_PRICE"}),
         Plain(TitleDewalt, Num(6000), "u2", {"AUCTION"}) >>,
      << Plain(TitleFluke, Null, "u4", {"FIXED_PRICE"}),
         Plain(TitleDewalt, Num(3000), "u2", {"FIXED_PRICE"}) >>,
      << Plain(TitleFluke, Text, "u4", {"FIXED_PRICE"}) >> }

ExistingResults == {NoResults} \cup {ResultsFile(l) : l \in ExistingLists}

BatchFiles ==
    { UnreadableFile, NonMapFile,
      FileMap([k \in KeySet |-> IF k = "fluke 117" THEN Comp(10000, 15, 0) ELSE NoEntry]) }

\* ANALYZE_LIMIT: 3, or the fallback
Limits == {3, ANALYZE_LIMIT}

InitBatch ==
    /\ file \in BatchFiles
    /\ now = 0
    /\ cloud = FALSE
    /\ call = Idle
    /\ last = NoCall
    /\ prev = NoPrev
    /\ ncalls = 0
    /\ nticks = 0
    /\ thr = DefaultThresholds
    /\ fres = NoResult
    /\ scan = ScanIdle
    /\ results \in ExistingResults
    /\ run = RunIdle
    /\ flipReport = NoReport
    /\ OthersIdle

\* ebay_scraper.py, lines 259-276: without a token the script exits and
\* results.json stays as it was
Scrape(token, batches, max_shipping) ==
    LET out == AllResults(batches, 1, max_shipping)
    IN  /\ scan.pc = "idle"
        /\ run.pc = "idle"
        /\ IF token
           THEN /\ scan' = [pc |-> "done", batches |-> batches,
                            max_shipping |-> max_shipping, gated |-> out.gated,
                            found |-> out.found, kept |-> out.kept]
                /\ results' = ResultsFile(out.results)
           ELSE /\ scan' = [scan EXCEPT !.pc = "exit"]
                /\ UNCHANGED results
        /\ UNCHANGED <<cacheVars, flipVars, gateVars, raceVars, run, flipReport>>

\* run_analysis, lines 158-171
RunStart(limit) ==
    /\ run.pc = "idle"
    /\ run' =
         IF ~results.exists THEN [run EXCEPT !.pc = "returned"]
         ELSE IF \E i \in 1..Len(results.items) : SortKeyRaises(results.items[i])
         THEN [run EXCEPT !.pc = "raised", !.limit = limit, !.items = results.items,
                          !.err = "ValueError"]
         ELSE [run EXCEPT !.pc = "loop", !.limit = limit, !.items = results.items,
                          !.order = Selected(results.items, limit), !.pos = 1]
    /\ UNCHANGED <<cacheVars, flipVars, gateVars, raceVars, scan, results, flipReport>>

\* lines 180-183, with the outcome of analyze_item on the listing i
Analyzed(i, out) ==
    /\ file' = out.file
    /\ run' = IF out.err # ""
              THEN [run EXCEPT !.pc = "raised", !.err = out.err,
                               !.analyzed = Append(@, i)]
              ELSE [run EXCEPT !.report = Append(@, out.row),
                               !.analyzed = Append(@, i), !.pos = @ + 1]

\* lines 172-183: one turn of the loop
RunItem(response, page, disk) ==
    /\ run.pc = "loop"
    /\ run.pos <= Len(run.order)
    /\ IF AuctionOnly(run.items[run.order[run.pos]].buying_options)
       THEN /\ run' = [run EXCEPT !.skipped = Append(@, run.order[run.pos]),
                                  !.pos = @ + 1]
            /\ UNCHANGED file
       ELSE Analyzed(run.order[run.pos],
                     analyze_item(run.items[run.order[run.pos]], file, now, thr,
                                  response, page, disk))
    /\ UNCHANGED <<now, cloud, call, last, prev, ncalls, nticks, flipVars, gateVars, raceVars,
                   scan, results, flipReport>>

\* the comp lookup of a turn: none for an auction-only listing
Lookups ==
    IF run.pc = "loop" /\ run.pos <= Len(run.order)
       /\ ~AuctionOnly(run.items[run.order[run.pos]].buying_options)
    THEN { <<"ok", pg, d>> : pg \in Pages, d \in DiskOutcomes }
           \cup { <<"bad", NoPage, d>> : d \in DiskOutcomes }
    ELSE { <<"none", NoPage, "none">> }

\* lines 185-189
RunWrite ==
    /\ run.pc = "loop"
    /\ run.pos > Len(run.order)
    /\ flipReport' = [exists |-> TRUE, rows |-> run.report]
    /\ run' = [run EXCEPT !.pc = "done"]
    /\ UNCHANGED <<cacheVars, flipVars, gateVars, raceVars, scan, results>>

NextBatch ==
    \/ \E token \in BOOLEAN, batches \in ScanInputs, max_shipping \in ShippingCeilings :
          Scrape(token, batches, max_shipping)
    \/ \E limit \in Limits : RunStart(limit)
    \/ \E l \in Lookups : RunItem(l[1], l[2], l[3])
    \/ RunWrite

SpecBatch == InitBatch /\ [][NextBatch]_vars

---------------------------------------------------------------------------
(* Properties of the batch pipeline *)

\* the spec's auction-only buying mode: auction present, fixed price absent
ClaimAuctionOnly(opts) == "AUCTION" \in opts /\ "FIXED_PRICE" \notin opts

\* the positions of the input listings that are not auction-only, in input order
Survivors(items) ==
    SelectSeq([i \in 1..Len(items) |-> i],
              LAMBDA i : ~ClaimAuctionOnly(items[i].buying_options))

\* the price a listing is ranked by: its price, 0 when it has none
PriceOf(item) == IF item.price.kind = "num" THEN item.price.cents ELSE 0

\* listing i comes before listing j in ascending price, input order on ties
Cheaper(items, i, j) ==
    \/ PriceOf(items[i]) < PriceOf(items[j])
    \/ PriceOf(items[i]) = PriceOf(items[j]) /\ i < j

\* the rank of listing i in that order, from 1
Rank(items, i) == Cardinality({j \in 1..Len(items) : Cheaper(items, j, i)}) + 1

SetOf(seq) == {seq[k] : k \in 1..Len(seq)}

\* C7: a failure while processing one listing does not propagate out of
\* run_analysis: no run ends on an exception raised in its loop, so the later
\* listings are evaluated and the report is written.
C7_FailureIsolated ==
    ~(run.pc = "raised" /\ run.pos >= 1)

\* C8 as claimed: the report has one FlipResult per listing that is not
\* auction-only, in the order those listings have in the input.
C8_ReportInInputOrder ==
    run.pc = "done" =>
        /\ flipReport = [exists |-> TRUE, rows |-> run.report]
        /\ Len(run.report) = Len(run.analyzed)
        /\ run.analyzed = Survivors(run.items)

\* C8 amended: a report that is written has exactly one FlipResult for each
\* listing that is not auction-only among the first ANALYZE_LIMIT listings in
\* ascending order of price (input order on equal prices), and its rows are in
\* that price order.
C8_ReportInPriceOrder ==
    run.pc = "done" =>
        /\ flipReport = [exists |-> TRUE, rows |-> run.report]
        /\ Len(run.report) = Len(run.analyzed)
        /\ \A k \in 1..Len(run.report) :
              /\ run.report[k].title = run.items[run.analyzed[k]].title
              /\ run.report[k].url = run.items[run.analyzed[k]].url
              /\ run.report[k].buy_price = run.items[run.analyzed[k]].price
        /\ SetOf(run.analyzed) =
              { i \in 1..Len(run.items) :
                  /\ ~ClaimAuctionOnly(run.items[i].buying_options)
                  /\ Rank(run.items, i) <= run.limit }
        /\ \A k \in 1..(Len(run.analyzed) - 1) :
              Cheaper(run.items, run.analyzed[k], run.analyzed[k + 1])

\* a report cut by the limit, with rows out of input order, with rows of
\* equal price, and with an auction-only listing left out
C8_Witness ==
    /\ run.pc = "done"
    /\ Len(run.items) > run.limit
    /\ Len(run.skipped) > 0
    /\ \E k \in 1..(Len(run.analyzed) - 1) : run.analyzed[k] > run.analyzed[k + 1]

\* C9 as claimed: the quality gate is never evaluated on an auction-only
\* listing.
C9_AuctionOnlyNeverGated ==
    \A k \in 1..Len(scan.gated) : ~ClaimAuctionOnly(scan.gated[k].opts)

\* C9 amended: an auction-only listing is never handed to analyze_item:
\* run_analysis skips it, and skips nothing else.  It is excluded after the
\* quality gate, not before: search_ebay_api evaluates is_quality_title on it
\* as on any listing and writes it to results.json, marked is_auction, when
\* it passes.
C9_AuctionOnlySkippedAfterGate ==
    /\ \A k \in 1..Len(run.analyzed) :
          ~ClaimAuctionOnly(run.items[run.analyzed[k]].buying_options)
    /\ \A k \in 1..Len(run.skipped) :
          ClaimAuctionOnly(run.items[run.skipped[k]].buying_options)
    /\ scan.pc = "done" =>
          \A k \in 1..Len(results.items) :
              /\ results.items[k].is_auction
                    <=> ClaimAuctionOnly(results.items[k].buying_options)
              /\ \E g \in 1..Len(scan.gated) :
                    /\ scan.gated[g].url = results.items[k].url
                    /\ scan.gated[g].title = results.items[k].title

\* a scan gated an auction-only listing and kept it; the analysis skipped it
C9_Witness ==
    /\ scan.pc = "done"
    /\ run.pc = "done"
    /\ \E k \in 1..Len(run.skipped) :
          /\ run.items[run.skipped[k]].is_auction
          /\ run.items[run.skipped[k]].buying_options = {"AUCTION", "BEST_OFFER"}
          /\ \E g \in 1..Len(scan.gated) :
                /\ scan.gated[g].url = run.items[run.skipped[k]].url
                /\ ClaimAuctionOnly(scan.gated[g].opts)
    /\ Len(run.report) > 0

\* the listings of the k-th response and what search_ebay_api made of them
ItemsOf(k) == scan.batches[k].items
KeptOf(k) == SetOf(scan.kept[k])

\* two raw listings share their URL or their normalized title
SameUrlOrTitle(a, b) ==
    a.url = b.url \/ NormTitleOf[a.title] = NormTitleOf[b.title]

\* a listing with its three required fields
WellFormed(it) == ~MissingField(it)

\* the listing gets through every filter of the loop but the duplicate test
PassesFilters(it) ==
    /\ ~MissingField(it)
    /\ ~PrefilteredOf[it.title]
    /\ QualityOf[it.title]
    /\ it.price.kind = "num"
    /\ ~OverCeiling(scan.max_shipping, ShippingCost(it.ship, 1, Null))

\* found[k] lists the kept listings of response k, in the order of the
\* response, and no two of them share a URL or a normalized title
OutputIsStableAndUnique(k) ==
    /\ Len(scan.found[k]) = Len(scan.kept[k])
    /\ \A i \in 1..Len(scan.kept[k]) :
          /\ scan.kept[k][i] \in 1..Len(ItemsOf(k))
          /\ scan.found[k][i].title = ItemsOf(k)[scan.kept[k][i]].title
          /\ scan.found[k][i].url = ItemsOf(k)[scan.kept[k][i]].url
          /\ scan.found[k][i].price = ItemsOf(k)[scan.kept[k][i]].price
    /\ \A i, j \in 1..Len(scan.kept[k]) :
          i < j =>
             /\ scan.kept[k][i] < scan.kept[k][j]
             /\ scan.found[k][i].url # scan.found[k][j].url
             /\ NormTitleOf[scan.found[k][i].title] # NormTitleOf[scan.found[k][j].title]

\* C17 as claimed: within one batch a listing is dropped whenever an earlier
\* listing of the batch had its URL or its normalized title; the output holds
\* no two listings with the same URL or normalized title and keeps the
\* order of the batch.
C17_DroppedWhenSeenEarlier ==
    scan.pc = "done" =>
        \A k \in 1..Len(scan.batches) :
            /\ OutputIsStableAndUnique(k)
            /\ \A j \in 1..Len(ItemsOf(k)) :
                  (\E e \in 1..(j - 1) :
                      /\ WellFormed(ItemsOf(k)[e]) /\ WellFormed(ItemsOf(k)[j])
                      /\ SameUrlOrTitle(ItemsOf(k)[e], ItemsOf(k)[j]))
                  => j \notin KeptOf(k)

\* C17 amended: within one batch a listing is kept exactly when it gets
\* through the other filters and no earlier listing that was kept has its
\* URL or its normalized title: only kept listings count as seen, so a
\* listing whose earlier twin was filtered out is kept.  The output holds no
\* two listings with the same URL or normalized title and keeps the order of
\* the batch.
C17_DroppedWhenKeptEarlier ==
    scan.pc = "done" =>
        \A k \in 1..Len(scan.batches) :
            /\ OutputIsStableAndUnique(k)
            /\ \A j \in 1..Len(ItemsOf(k)) :
                  j \in KeptOf(k) <=>
                     /\ PassesFilters(ItemsOf(k)[j])
                     /\ ~\E e \in 1..(j - 1) :
                           /\ e \in KeptOf(k)
                           /\ SameUrlOrTitle(ItemsOf(k)[e], ItemsOf(k)[j])

\* a duplicate by title was dropped and a listing whose earlier twin was
\* filtered out was kept
C17_Witness ==
    /\ scan.pc = "done"
    /\ \E k \in 1..Len(scan.batches) :
          \E e, j, f, g \in 1..Len(ItemsOf(k)) :
             /\ e < j /\ e \in KeptOf(k) /\ j \notin KeptOf(k)
             /\ PassesFilters(ItemsOf(k)[j])
             /\ ItemsOf(k)[e].url # ItemsOf(k)[j].url
             /\ SameUrlOrTitle(ItemsOf(k)[e], ItemsOf(k)[j])
             /\ f < g /\ f \notin KeptOf(k) /\ g \in KeptOf(k)
             /\ WellFormed(ItemsOf(k)[f])
             /\ SameUrlOrTitle(ItemsOf(k)[f], ItemsOf(k)[g])

---------------------------------------------------------------------------
(* The two gates and the normalizer as functions of a title: each step     *)
(* hands one title to search_ebay_api's prefilter and gate, to the gate of *)
(* scan_mercari_live and to to_search_query.                               *)

TitleHeads == {"", "Genuine ", "OEM ", "9.0Ah ", "2Pack ", "Genuine 5.0Ah "}

TitleBodies ==
    { "Battery", "For RYOBI P108 18V Battery", "Battery for DeWalt 20V",
      "DeWalt DCB205 Battery", "Makita Drill XFD10", "Tool Only",
      "DeWalt Vinyl Banner" }

TitleTails == {"", " Tested", " fits P108"}

GateTitles ==
    Titles \cup { h \o b \o e : h \in TitleHeads, b \in TitleBodies, e \in TitleTails }

GateResult(title, prefiltered, quality, api, live, query) ==
    [valid |-> TRUE, title |-> title, prefiltered |-> prefiltered,
     quality |-> quality, api |-> api, live |-> live, query |-> query]

\* a title that is about to be handed to the gates and the normalizer
Pending(title) == [NoGate EXCEPT !.title = title]

InitGate ==
    /\ file = UnreadableFile
    /\ now = 0
    /\ cloud = FALSE
    /\ call = Idle
    /\ last = NoCall
    /\ prev = NoPrev
    /\ ncalls = 0
    /\ nticks = 0
    /\ thr = DefaultThresholds
    /\ fres = NoResult
    /\ BatchIdle
    /\ gate \in {Pending(title) : title \in GateTitles}
    /\ procs = NoProcs

\* the title goes through search_ebay_api's prefilter and gate, through the
\* gate of scan_mercari_live and through to_search_query
CheckTitle ==
    /\ ~gate.valid
    /\ gate' = GateResult(gate.title, Prefiltered(gate.title),
                          is_quality_title(gate.title), ApiGate(gate.title),
                          LiveGate(gate.title), to_search_query(gate.title))
    /\ UNCHANGED <<cacheVars, flipVars, batchVars, raceVars>>

NextGate == CheckTitle

SpecGate == InitGate /\ [][NextGate]_vars


---------------------------------------------------------------------------
(* Properties of the gates and the normalizer *)

GateLower == Lower(gate.title)

\* the title mentions a capacity value or a multi-pack count
MentionsCapacityOrPack(t) == Search(CapacityOrPack, t)

\* the battery rule of either source rejects the title: the prefilter of
\* search_ebay_api or lines 94-107 of is_quality_title on the API scan,
\* GENERIC_BATTERY_RE in _is_quality_title_mercari on the live scan
BatteryRuleRejects(t) ==
    \/ Search(GENERIC_BATTERY_RE, t)
    \/ ~BatteryRules(t, HasForBrand(t), Contains(t, "battery"),
                     Search(CAPACITY_RE, t), AnyIn(oem_tokens, t))

ForBrandAccessory(t) ==
    Contains(t, " for ") /\ HasForBrand(t) /\ AnyIn(for_brand_words, t)

\* a rule other than the battery rule rejects the title
OtherRuleTripsApi(t) ==
    \/ AnyIn(bad_terms, t)
    \/ AnyIn(accessory_terms, t)
    \/ ForBrandAccessory(t)
    \/ Search(PARTS_AI_RE, t)
    \/ ~AnyIn(BRAND_WHITELIST, t)

OtherRuleTripsLive(t) ==
    \/ AnyIn(BAD_TERMS, t)
    \/ AnyIn(ACCESSORY_TERMS, t)
    \/ ForBrandAccessory(t)
    \/ Search(PARTS_AI_RE, t)
    \/ ~AnyIn(BRAND_WHITELIST, t)

BatteryRuleAsClaimed(t) ==
    /\ BatteryRuleRejects(t) =>
          /\ MentionsCapacityOrPack(t)
          /\ HasForBrand(t)
          /\ Contains(t, "battery")
    /\ (AnyIn(oem_tokens, t) /\ ~OtherRuleTripsApi(t)) => gate.api
    /\ (AnyIn(oem_tokens, t) /\ ~OtherRuleTripsLive(t)) => gate.live

\* C13: the battery rule rejects a title only when it mentions a capacity or
\* a multi-pack count together with "for <brand>" and "battery", and a branded
\* title with an OEM token that trips no other rule is accepted by the gate of
\* the API scan and by the gate of the live scan.
C13_OemBatteryAccepted == gate.valid => BatteryRuleAsClaimed(GateLower)

\* C14: the gate of the API scan and the gate of the live scan give the same
\* answer for every title.
C14_GatesAgree == gate.valid => (gate.api <=> gate.live)

\* C15: to_search_query returns a non-empty query for every non-empty title.
C15_QueryNeverEmpty == (gate.valid /\ gate.title # "") => gate.query # ""

\* C16 as claimed: "Milwaukee M18 Fuel Drill 2801-20 Tool Only" normalizes to
\* "milwaukee 2801 20" and passes the quality gate.
C16_MilwaukeeQuerySpaced ==
    (gate.valid /\ gate.title = TitleMilwaukee)
        => (gate.query = "milwaukee 2801 20" /\ gate.quality)

\* C16 amended: the title normalizes to "milwaukee 2801-20 2801" (the
\* hyphenated model number, then the bare number the digit pattern finds in
\* it), and is_quality_title, the API scan and the live scan accept it.
C16_MilwaukeeQueryHyphenated ==
    (gate.valid /\ gate.title = TitleMilwaukee)
        => /\ gate.query = "milwaukee 2801-20 2801"
           /\ gate.quality /\ ~gate.prefiltered /\ gate.api /\ gate.live

C16_Witness ==
    /\ gate.valid
    /\ gate.title = TitleMilwaukee
    /\ gate.query = "milwaukee 2801-20 2801"
    /\ gate.quality


---------------------------------------------------------------------------
(* Two pipelines on the same cache file.  Each runs get_mercari_resale_data *)
(* in two steps: RaceLoad (lines 45-60: load_cache and the fresh-entry      *)
(* test) and RaceFinish (lines 62-122: the fetch and save_cache of the      *)
(* whole in-memory copy); the steps of the two pipelines interleave.        *)

\* a save that reads the file again and merges its entry into it
SavedCopyReloaded(p) == LoadCache(file).m

\* line 117: save_cache(cache) writes the mapping loaded at line 47
SavedCopy(p) == procs[p].cache

InitRace ==
    /\ file \in InitFiles
    /\ now = 0
    /\ cloud = FALSE
    /\ call = Idle
    /\ last = NoCall
    /\ prev = NoPrev
    /\ ncalls = 0
    /\ nticks = 0
    /\ thr = DefaultThresholds
    /\ fres = NoResult
    /\ BatchIdle
    /\ OthersIdle

\* lines 45-60 in pipeline p
RaceLoad(p, query) ==
    LET key == KeyOf[query]
        cache == LoadCache(file)
        entry == cache.m[key]
        started == [ProcIdle EXCEPT !.key = key, !.t = now, !.cache = cache.m,
                                    !.entry = entry]
    IN  /\ procs[p].pc = "idle"
        /\ procs' = [procs EXCEPT ![p] =
              IF ~cache.isdict
              THEN [started EXCEPT !.pc = "done", !.ret = RaiseRet]
              ELSE IF Truthy(entry) /\ ServedFresh(entry, now)
              THEN [started EXCEPT !.pc = "done", !.ret = CompRet(entry.avg, entry.vol)]
              ELSE [started EXCEPT !.pc = "fetch"]]
        /\ UNCHANGED <<cacheVars, flipVars, batchVars, gateVars>>

\* lines 62-122 in pipeline p: response is what the retry loop leaves
RaceFinish(p, response, page, disk) ==
    LET out == FinishFetch(file, SavedCopy(p), procs[p].key, procs[p].entry,
                           procs[p].t, response, page, disk)
    IN  /\ procs[p].pc = "fetch"
        /\ file' = out.file
        /\ procs' = [procs EXCEPT ![p] =
              [@ EXCEPT !.pc = "done", !.ret = out.ret,
                        !.wrote = (out.stored /\ disk = "ok")]]
        /\ UNCHANGED <<now, cloud, call, last, prev, ncalls, nticks, flipVars,
                       batchVars, gateVars>>

Responses == {"ok", "bad", "none"}

\* the page exists only after a 200, the write only when line 117 is reached
RaceChoices(p) ==
    { <<response, page, disk>> \in Responses \X Pages \X (DiskOutcomes \cup {"none"}) :
        /\ (response # "ok" => page = NoPage)
        /\ (disk = "none" <=> FallsBack(procs[p].entry, response, page)) }

NextRace ==
    \/ \E p \in Pipelines, query \in Queries : RaceLoad(p, query)
    \/ \E p \in Pipelines : \E c \in RaceChoices(p) : RaceFinish(p, c[1], c[2], c[3])

SpecRace == InitRace /\ [][NextRace]_vars

---------------------------------------------------------------------------
(* Properties of two pipelines on one cache file *)

\* the entry pipeline p wrote for its key
Written(p) == Comp(procs[p].ret.avg, procs[p].ret.vol, procs[p].t)

\* both pipelines completed with a value that was written, for different keys
BothWrote ==
    /\ \A p \in Pipelines :
          procs[p].pc = "done" /\ procs[p].ret.kind = "comp" /\ procs[p].wrote
    /\ procs[1].key # procs[2].key

\* the file is the in-memory copy of pipeline p with p's entry in it
FileIsCopyOf(p) ==
    file = FileMap([procs[p].cache EXCEPT ![procs[p].key] = Written(p)])

\* C18: when two lookups for different keys interleave on one cache file, the
\* file ends up as the in-memory copy of the pipeline that saved last, so the
\* entry of the other pipeline is in it only when that copy was loaded after
\* the other one saved; a state where both completed and one entry is absent
\* from the file is reachable (C18_Witness).
C18_LastSaverWins ==
    BothWrote =>
        \E p \in Pipelines :
            /\ FileIsCopyOf(p)
            /\ \A q \in Pipelines \ {p} :
                  (Persisted(file, procs[q].key) = Written(q))
                     <=> (procs[p].cache[procs[q].key] = Written(q))

\* both completed successfully and the entry one of them wrote is absent
C18_Witness ==
    /\ BothWrote
    /\ \E q \in Pipelines :
          /\ procs[q].entry.kind = "none"
          /\ Persisted(file, procs[q].key).kind = "none"
          /\ Written(q).vol > 0

=============================================================================
